---- MODULE Spec2Model ----
(***************************************************************************)
(* Word-PDF service (src/server.js): the ConversionQueue, the two          *)
(* conversion routes (POST /api/convert-sync, which goes through the       *)
(* queue, and POST /api/convert, which calls convertDocxToPdfFromUrl       *)
(* directly), and the LibreOffice supervision in convertDocxToPdf with its *)
(* deadline timer and grace-period timer.                                  *)
(*                                                                         *)
(* One action is one run-to-completion turn of the Node event loop: the    *)
(* handler of a request, of an I/O completion, of a timer or of a child    *)
(* process event, together with every promise continuation (microtask)     *)
(* that the handler makes runnable.                                        *)
(*                                                                         *)
(* Time is in milliseconds.  A timer holds the time left until it is due   *)
(* (NoTimer when it is not armed or was cleared) and fires only when that  *)
(* is 0; the action Tick lets time pass up to the next due timer.  A       *)
(* request without its required fields is answered 400 and changes no      *)
(* state (lines 244-249, 341-346): the request actions take accepted       *)
(* requests only.                                                          *)
(*                                                                         *)
(* A job is known by a slot in 1..NJobs from its request until nothing of  *)
(* it is left in the program: its body has ended, the 'close' of its       *)
(* converter was handled and none of its timers is armed.  Forget then     *)
(* frees the slot for a later request, before anything else happens, so    *)
(* any number of requests is served in one run.                            *)
(*                                                                         *)
(* An output directory is known by an id in 1..NJobs that stands for its   *)
(* path.  The path of POST /api/convert-sync has a random part; the path   *)
(* of POST /api/convert is made of the orderId and of Date.now() (lines    *)
(* 175-177), so two of its jobs with the same orderId, called within the   *)
(* same millisecond, have the same path and share one directory; all that  *)
(* the model keeps of an orderId is which jobs it is the same for.  The    *)
(* name of the input file has a random part (line 54) and is the job's     *)
(* own.                                                                    *)
(***************************************************************************)
EXTENDS Integers, Sequences, FiniteSets

\* ---- bounds of the model ------------------------------------------------
NJobs == 3          \* jobs that are in the service at the same time
MaxAsync == 2       \* of these, jobs of POST /api/convert
MaxMixed == 1       \* jobs of each route in the service at the same time
                    \* when both routes are in use

\* ---- program constants --------------------------------------------------
CooldownMs == 1000  \* server.js:41  setTimeout(resolve, 1000)
GraceMs == 5000     \* server.js:102 force kill after 5 seconds
TimeoutMs == 60000  \* server.js:370 and :194, the timeoutMs argument

NoTimer == -1       \* server.js:74  let timeoutId = null

Jobs == 1..NJobs

VARIABLES
  \* ConversionQueue (server.js:15-46)
  queue,         \* this.queue: the pending entries, as job ids
  processing,    \* this.processing
  cooldown,      \* the timer of line 41
  entry,         \* per job: state of the promise that enqueue returned
  settles,       \* per job: calls of request.resolve / request.reject
  waiting,       \* history: the enqueued, not yet started jobs by arrival
  sinceSettle,   \* stopwatch: time since the last request.resolve/reject,
                 \* stopped at CooldownMs
  \* requests and jobs
  kind,          \* per job: "sync" (convert-sync) or "callback" (convert)
  url,           \* per job: "valid", "bad" (sentinel / not absolute)
  jpc,           \* per job: the await at which the job's code is suspended
  thrown,        \* per job: error caught at line 210, rethrown at line 217
  outcome,       \* per job: result with which the job's body settled
  resp,          \* per job: HTTP response sent to the requester
  hooks,         \* per job: statuses of the webhook requests issued
  outbound,      \* per job: what the service has sent for it, in the order
                 \* of sending: the HTTP response and the webhook requests
  response,      \* per job: how the download ended: "none", "ok", "notok"
                 \* (answered, response.ok false), "error" (fetch rejected)
  pdfBuffer,     \* per job: "none", or "bytes" once the PDF was read
  delivery,      \* per job: how the last webhook request ended
  unhandled,     \* a promise of a notifier was rejected with no handler
  \* convertDocxToPdf (server.js:51-166), one supervision per job
  child,         \* "none", "spawnerr", "running", "exited", "closed"
  exitCode,      \* child.exitCode: "null", "0", "1", "ENOENT" (failed spawn)
  exitedEarly,   \* history, from the end of the process to its 'close': the
                 \* process ended while the deadline timer had time left
  killed,        \* child.killed
  timeoutId,     \* the deadline timer of lines 90-104
  graceTimer,    \* the inner timer of lines 97-102
  processKilled, \* the flag of line 75
  promise,       \* the promise convertDocxToPdf returned: "none",
                 \* "pending", "resolved", or the error it was rejected with
  attempts,      \* calls of resolve / reject on that promise
  sent,          \* history: the signals delivered to the process, in order
  sinceTerm,     \* stopwatch: time since SIGTERM reached the running process
  listed,        \* per job: fs.readdir(outputDir) gave the entries
  found,         \* per job: the .pdf files among these entries (pdfFiles of
                 \* line 134, a local of the close handler: kept until the
                 \* handler ends, when fs.stat completes)
  pdfFile,       \* per job: the file the scan took (pdfFiles[0]), 0 if none
  \* staging artifacts
  inputFile,     \* "absent", "present", "unlinking" (fs.unlink was issued and
                 \* is not awaited: the file goes at some later moment)
  dir,           \* per job: the id of its outputDir path, 0 before the
                 \* path is made
  sameMs,        \* the POST /api/convert jobs called in the present
                 \* millisecond (Date.now(), line 176) and still at their
                 \* fetch: a request has the same effect before and after
                 \* another job's handler, so these are all a request's
                 \* path needs to be compared with
  outputDir,     \* per directory id: "absent", "present"
  pdfFiles       \* per directory id: the .pdf files in the directory

queueVars == <<queue, processing, cooldown, entry, settles, waiting, sinceSettle>>
jobVars == <<kind, url, jpc, thrown, outcome, resp, hooks, outbound, response,
            pdfBuffer, delivery, unhandled>>
supVars == <<child, exitCode, exitedEarly, killed, timeoutId, graceTimer,
             processKilled, promise, attempts, sent, sinceTerm, listed, found, pdfFile>>
fsVars == <<inputFile, dir, sameMs, outputDir, pdfFiles>>
vars == <<queueVars, jobVars, supVars, fsVars>>

Init ==
  /\ queue = <<>>
  /\ processing = FALSE
  /\ cooldown = NoTimer
  /\ entry = [j \in Jobs |-> "none"]
  /\ settles = [j \in Jobs |-> 0]
  /\ waiting = <<>>
  /\ sinceSettle = CooldownMs
  /\ kind = [j \in Jobs |-> "none"]
  /\ url = [j \in Jobs |-> "none"]
  /\ jpc = [j \in Jobs |-> "new"]
  /\ thrown = [j \in Jobs |-> "none"]
  /\ outcome = [j \in Jobs |-> "none"]
  /\ resp = [j \in Jobs |-> "none"]
  /\ hooks = [j \in Jobs |-> <<>>]
  /\ outbound = [j \in Jobs |-> <<>>]
  /\ response = [j \in Jobs |-> "none"]
  /\ pdfBuffer = [j \in Jobs |-> "none"]
  /\ delivery = [j \in Jobs |-> "none"]
  /\ unhandled = FALSE
  /\ child = [j \in Jobs |-> "none"]
  /\ exitCode = [j \in Jobs |-> "null"]
  /\ exitedEarly = [j \in Jobs |-> FALSE]
  /\ killed = [j \in Jobs |-> FALSE]
  /\ timeoutId = [j \in Jobs |-> NoTimer]
  /\ graceTimer = [j \in Jobs |-> NoTimer]
  /\ processKilled = [j \in Jobs |-> FALSE]
  /\ promise = [j \in Jobs |-> "none"]
  /\ attempts = [j \in Jobs |-> 0]
  /\ sent = [j \in Jobs |-> <<>>]
  /\ sinceTerm = [j \in Jobs |-> NoTimer]
  /\ listed = [j \in Jobs |-> FALSE]
  /\ found = [j \in Jobs |-> {}]
  /\ pdfFile = [j \in Jobs |-> 0]
  /\ inputFile = [j \in Jobs |-> "absent"]
  /\ dir = [j \in Jobs |-> 0]
  /\ sameMs = {}
  /\ outputDir = [d \in Jobs |-> "absent"]
  /\ pdfFiles = [d \in Jobs |-> {}]

Min(a, b) == IF a <= b THEN a ELSE b


\* ---- ConversionQueue ------------------------------------------------------
\* this.queue.unshift(...) in the place of push(): the entry goes to the front.
PushFront(q, j) == <<j>> \o q

\* enqueue, line 23: this.queue.push(...)
Push(q, j) == Append(q, j)

\* A drain that does not look at the processing flag.
CanDrainIgnoringFlag(p, q) == q # <<>>

\* processQueue, line 29: the early return, negated
CanDrain(p, q) == ~p /\ q # <<>>

\* this.queue.pop() in the place of shift(): the newest entry is taken.
ShiftNewest(q) == <<q[Len(q)], SubSeq(q, 1, Len(q) - 1)>>

\* this.queue[0] in the place of shift(): the entry stays in the list.
ShiftKeeping(q) == <<Head(q), q>>

\* processQueue, line 32: this.queue.shift(), as <<the entry, the rest>>
Shift(q) == <<Head(q), Tail(q)>>

\* A catch block that resolves the entry.
EntryAfterResolving(res) == "resolved"

\* processQueue, lines 35-38: resolve on a result, reject on an exception
EntryAfter(res) == IF res = "completed" THEN "resolved" ELSE "rejected"

\* The cooldown and the next drain in the try block, after the resolve.
RunsOnSuccess(res) == res = "completed"

\* processQueue, lines 39-44: the finally block runs whatever the result
RunsFinally(res) == TRUE

\* The delay given in seconds to a timer that counts milliseconds.
CooldownInSeconds == CooldownMs \div 1000

\* processQueue, line 41: the delay of the cooldown timer
CooldownDelay == CooldownMs

\* A processQueue that calls itself without clearing the flag first.
ProcessingStaysBusy == TRUE

\* processQueue, lines 42-43, after the cooldown: this.processing = false
ProcessingAfterCooldown == FALSE

\* processQueue, lines 35-41, from the moment request.callback() settles with
\* res: settle the entry of job j, then start the cooldown timer
SettleEntry(j, res) ==
  /\ entry' = [entry EXCEPT ![j] = EntryAfter(res)]
  /\ settles' = [settles EXCEPT ![j] = @ + 1]
  /\ cooldown' = IF RunsFinally(res) THEN CooldownDelay ELSE cooldown
  /\ sinceSettle' = 0
  /\ UNCHANGED <<queue, processing, waiting>>

\* ---- how a job's body ends -------------------------------------------------
\* A notifier that reports every outcome as a success.
WebhookStatusCompleted(res) == "completed"

\* lines 276 and 310: the status of the payload, 'completed' in the .then
\* handler (the conversion resolved), 'failed' in the .catch handler
WebhookStatus(res) == IF res = "completed" THEN "completed" ELSE "failed"

\* The job's body settles with res ("completed" or the name of an error).
\* convert-sync: the callback's promise settles, processQueue settles the
\* entry, and the route answers (lines 394-403).  convert: the .then or the
\* .catch of lines 261-318 issues the webhook request.
Returns(j, res) ==
  /\ outcome' = [outcome EXCEPT ![j] = res]
  /\ UNCHANGED <<kind, url, thrown, delivery, unhandled>>
  /\ IF kind[j] = "sync"
       THEN /\ SettleEntry(j, res)
            /\ jpc' = [jpc EXCEPT ![j] = "done"]
            /\ resp' = [resp EXCEPT ![j] = IF EntryAfter(res) = "resolved" THEN "200" ELSE "500"]
            /\ hooks' = hooks
            /\ outbound' = [outbound EXCEPT ![j] = Append(@, resp'[j])]
       ELSE /\ UNCHANGED queueVars
            /\ jpc' = [jpc EXCEPT ![j] = "hook"]
            /\ resp' = resp
            /\ hooks' = [hooks EXCEPT ![j] = Append(@, WebhookStatus(res))]
            /\ outbound' = [outbound EXCEPT ![j] = Append(@, WebhookStatus(res))]

\* An exception inside the job's body.  convert-sync: the catch of line 390
\* rethrows.  convert: the catch of line 210 awaits fs.rm(outputDir) first.
Throws(j, err) ==
  IF kind[j] = "sync"
    THEN Returns(j, err)
    ELSE /\ jpc' = [jpc EXCEPT ![j] = "rmerr"]
         /\ thrown' = [thrown EXCEPT ![j] = err]
         /\ UNCHANGED <<queueVars, kind, url, outcome, resp, hooks, outbound,
                        delivery, unhandled>>

\* The job's body moves on to its next await.
Goto(j, pc) ==
  /\ jpc' = [jpc EXCEPT ![j] = pc]
  /\ UNCHANGED <<queueVars, kind, url, thrown, outcome, resp, hooks, outbound,
                 delivery, unhandled>>

\* ---- the routes ------------------------------------------------------------
\* The slots no job occupies, and the one the next request takes.
FreeSlots == {j \in Jobs : jpc[j] = "new"}
FreeSlot == CHOOSE j \in FreeSlots : \A i \in FreeSlots : j <= i

\* The sequence q without its entries equal to h.
Without(q, h) == SelectSeq(q, LAMBDA x : x # h)

\* A path no job in the service has, for the job in slot j: the id j, or
\* the lowest id not in use when a job of the same path as the slot's last
\* job is still there.
FreshDir(j) ==
  IF \A i \in Jobs : dir[i] # j
    THEN j
    ELSE CHOOSE d \in Jobs : /\ \A i \in Jobs : dir[i] # d
                             /\ \A e \in Jobs : (\A i \in Jobs : dir[i] # e) => d <= e

\* line 365: output_sync_<Date.now()>_<random>
SyncDir(j) == FreshDir(j)

\* lines 175-177: output_<orderId>_<Date.now()>.  twin is a job that was
\* called with the same orderId in the same millisecond, 0 if there is none.
CallbackDir(j, twin) == IF twin # 0 THEN dir[twin] ELSE FreshDir(j)

\* POST /api/convert-sync, lines 337-353, then enqueue (21-26) and the
\* synchronous part of processQueue (28-35) up to the callback's first await,
\* the fetch of line 357.
RequestSync(u) ==
  /\ FreeSlots # {}
  /\ LET j == FreeSlot
         q1 == Push(queue, j)
     IN
     /\ kind' = [kind EXCEPT ![j] = "sync"]
     /\ url' = [url EXCEPT ![j] = u]
     /\ IF CanDrain(processing, q1)
          THEN LET h == Shift(q1)[1] IN
               /\ processing' = TRUE
               /\ queue' = Shift(q1)[2]
               /\ entry' = [entry EXCEPT ![j] = "pending", ![h] = "active"]
               /\ waiting' = Without(Append(waiting, j), h)
               /\ jpc' = [jpc EXCEPT ![j] = "queued", ![h] = "fetch"]
          ELSE /\ queue' = q1
               /\ entry' = [entry EXCEPT ![j] = "pending"]
               /\ waiting' = Append(waiting, j)
               /\ jpc' = [jpc EXCEPT ![j] = "queued"]
               /\ UNCHANGED processing
  /\ UNCHANGED <<thrown, outcome, resp, hooks, outbound, cooldown, settles, sinceSettle>>
  /\ UNCHANGED <<response, pdfBuffer, delivery, unhandled>>
  /\ UNCHANGED <<supVars, fsVars>>

\* A handler that awaits the conversion before it answers.
NotifyThenAnswer(r, hs) == hs \o <<r>>

\* POST /api/convert, lines 260-321, what the handler's turn sends, in order:
\* the call of line 260 gives a promise and registers the handlers of lines
\* 261 and 294 on it; res.json (line 321) runs in the handler itself, and the
\* .catch handler of a call that has thrown runs after the handler, as a
\* microtask.  r: the response, hs: the webhook requests of the microtasks.
AnswerThenNotify(r, hs) == <<r>> \o hs

\* POST /api/convert, lines 240-325: convertDocxToPdfFromUrl is called at once
\* (line 260, no queue), runs to its fetch (line 182) or throws at line 172;
\* the route answers at line 321, and then the .catch of line 294 runs if the
\* call threw.  twin: a job of sameMs that has the orderId of this request,
\* 0 when the orderId or the value of Date.now() is another one.
RequestAsync(u, twin) ==
  /\ FreeSlots # {}
  /\ Cardinality({i \in Jobs : kind[i] = "callback"}) < MaxAsync
  /\ twin \in sameMs \cup {0}
  /\ LET j == FreeSlot IN
     /\ kind' = [kind EXCEPT ![j] = "callback"]
     /\ url' = [url EXCEPT ![j] = u]
     /\ resp' = [resp EXCEPT ![j] = "accepted"]
     /\ IF u = "bad"
          THEN /\ outcome' = [outcome EXCEPT ![j] = "InvalidUrl"]
               /\ hooks' = [hooks EXCEPT ![j] = Append(@, WebhookStatus("InvalidUrl"))]
               /\ jpc' = [jpc EXCEPT ![j] = "hook"]
               /\ UNCHANGED <<dir, sameMs>>
          ELSE /\ jpc' = [jpc EXCEPT ![j] = "fetch"]
               /\ dir' = [dir EXCEPT ![j] = CallbackDir(j, twin)]
               /\ sameMs' = sameMs \cup {j}
               /\ UNCHANGED <<outcome, hooks>>
     /\ outbound' = [outbound EXCEPT ![j] = AnswerThenNotify("accepted", hooks'[j])]
  /\ UNCHANGED <<thrown, response, pdfBuffer, delivery, unhandled>>
  /\ UNCHANGED <<queueVars, supVars, inputFile, outputDir, pdfFiles>>

\* processQueue, lines 41-43 and, through the recursive call, 28-35: the
\* cooldown timer fires, the queue becomes idle and drains its next entry.
CooldownFires ==
  /\ cooldown = 0
  /\ cooldown' = NoTimer
  /\ IF CanDrain(ProcessingAfterCooldown, queue)
       THEN LET h == Shift(queue)[1] IN
            /\ processing' = TRUE
            /\ queue' = Shift(queue)[2]
            /\ entry' = [entry EXCEPT ![h] = "active"]
            /\ waiting' = Without(waiting, h)
            /\ jpc' = [jpc EXCEPT ![h] = "fetch"]
       ELSE /\ processing' = ProcessingAfterCooldown
            /\ UNCHANGED <<queue, entry, waiting, jpc>>
  /\ UNCHANGED <<settles, sinceSettle, kind, url, thrown, outcome, resp, hooks, outbound>>
  /\ UNCHANGED <<response, pdfBuffer, delivery, unhandled>>
  /\ UNCHANGED <<supVars, fsVars>>

\* ---- the job's body up to the supervision ----------------------------------
\* A promise that takes every resolve / reject, the last one winning.
SettleLast(p, r) == r

\* A promise settles once: a later resolve / reject has no effect.
SettleOnce(p, r) == IF p = "pending" THEN r ELSE p

\* The promise of convertDocxToPdf is rejected with err (reject, lines 120,
\* 128, 136, 146, 148, 161, 164); the job's body, which awaits the promise,
\* goes on when this settles it.
Reject(j, err) ==
  /\ promise' = [promise EXCEPT ![j] = SettleOnce(@, err)]
  /\ attempts' = [attempts EXCEPT ![j] = @ + 1]
  /\ IF SettleOnce(promise[j], err) # promise[j]
       THEN /\ Throws(j, err)
            /\ UNCHANGED <<response, pdfBuffer>>
       ELSE UNCHANGED <<queueVars, jobVars>>

\* A download that does not look at response.ok.
FetchResultUnchecked(r) == IF r = "error" THEN "Download" ELSE "buffer"

\* lines 182-185 and 357-360: fetch rejects, or the answer is not OK: throw;
\* else go on to read the body
FetchResult(r) == IF r = "ok" THEN "buffer" ELSE "Download"

\* fetch(docxUrl) completes (lines 182-185 and 357-360).  A URL that is not
\* absolute makes fetch fail.
FetchDone(j, r) ==
  /\ jpc[j] = "fetch"
  /\ url[j] = "bad" => r = "error"
  /\ response' = [response EXCEPT ![j] = r]
  /\ IF FetchResult(r) = "buffer" THEN Goto(j, "buffer") ELSE Throws(j, "Download")
  /\ sameMs' = sameMs \ {j}
  /\ UNCHANGED <<pdfBuffer, supVars, inputFile, dir, outputDir, pdfFiles>>

\* response.buffer() completes (lines 186 and 361); the convert-sync job
\* makes its outputDir path (line 365); fs.mkdir is issued.
BufferDone(j, r) ==
  /\ jpc[j] = "buffer"
  /\ IF r = "ok"
       THEN /\ Goto(j, "mkdir")
            /\ dir' = [dir EXCEPT ![j] = IF kind[j] = "sync" THEN SyncDir(j) ELSE @]
       ELSE /\ Throws(j, "Download")
            /\ dir' = dir
  /\ UNCHANGED <<response, pdfBuffer, supVars, inputFile, sameMs, outputDir, pdfFiles>>

\* fs.mkdir(outputDir, {recursive}) completes (lines 190 and 366);
\* convertDocxToPdf is called and issues fs.writeFile(inputFile) (52-57).
MkdirDone(j, r) ==
  /\ jpc[j] = "mkdir"
  /\ IF r = "ok"
       THEN /\ Goto(j, "write")
            /\ outputDir' = [outputDir EXCEPT ![dir[j]] = "present"]
            /\ promise' = [promise EXCEPT ![j] = "pending"]
       ELSE /\ Throws(j, "Io")
            /\ UNCHANGED <<outputDir, promise>>
  /\ UNCHANGED <<child, exitCode, exitedEarly, killed, timeoutId, graceTimer, processKilled,
                 attempts, sent, sinceTerm, listed, found, pdfFile>>
  /\ UNCHANGED <<response, pdfBuffer, inputFile, dir, sameMs, pdfFiles>>

\* fs.writeFile completes (lines 57-104, 164): on success the converter is
\* spawned (s: "ok", "enoent" = the executable cannot be started, which Node
\* reports by an 'error' event, "throw" = spawn throws) and the deadline
\* timer is armed.
WriteDone(j, r, s) ==
  /\ jpc[j] = "write"
  /\ r = "error" => s = "ok"
  /\ UNCHANGED <<exitCode, exitedEarly, killed, graceTimer, processKilled, sent, sinceTerm, listed, found, pdfFile>>
  /\ UNCHANGED <<dir, sameMs, outputDir, pdfFiles>>
  /\ IF r = "ok" /\ s # "throw"
       THEN /\ Goto(j, "supervise")
            /\ inputFile' = [inputFile EXCEPT ![j] = "present"]
            /\ child' = [child EXCEPT ![j] = IF s = "ok" THEN "running" ELSE "spawnerr"]
            /\ timeoutId' = [timeoutId EXCEPT ![j] = TimeoutMs]
            /\ UNCHANGED <<promise, attempts, response, pdfBuffer>>
       ELSE /\ Reject(j, IF r = "ok" THEN "Spawn" ELSE "Io")
            /\ inputFile' = [inputFile EXCEPT ![j] = IF r = "ok" THEN "present" ELSE @]
            /\ UNCHANGED <<child, timeoutId>>

\* ---- convertDocxToPdf: the supervision -------------------------------------
\* A deadline timer that kills forcefully at once.
DeadlineSigkill == "SIGKILL"

\* line 94: the signal the deadline timer sends
DeadlineSignal == "SIGTERM"

\* line 91: the guard of the deadline timer
DeadlineGuard(k, code) == ~k /\ code = "null"

\* A grace-period timer that never escalates.
GraceGuardNever(code) == FALSE

\* line 98: the guard of the grace-period timer
GraceGuard(code) == code = "null"

\* line 102: the delay of the grace-period timer
GraceDelay == GraceMs

\* A close handler that looks at the exit code before the processKilled flag.
CloseResultCodeFirst(pk, code) ==
  IF code = "0" THEN "scan" ELSE IF pk THEN "Timeout" ELSE "Exit"

\* A close handler that takes a null exit code (death by a signal) for success.
CloseResultNullOk(pk, code) ==
  IF pk THEN "Timeout" ELSE IF code \notin {"0", "null"} THEN "Exit" ELSE "scan"

\* lines 118-131: what the close handler does with (processKilled, code):
\* reject with a timeout error, reject with an exit error, or scan outputDir
CloseResult(pk, code) ==
  IF pk THEN "Timeout" ELSE IF code # "0" THEN "Exit" ELSE "scan"

\* lines 109 and 153: clearTimeout(timeoutId); the inner timer has no handle
\* and is not cleared.  <<deadline timer, grace timer>> after the handler.
ClearTimers(t, g) == <<NoTimer, g>>

\* child.kill (lines 94, 100) delivers a signal only while the process handle
\* is open, that is until the exit of the process was reported.
Delivered(c) == c = "running"

\* child.kill(sig), lines 94 and 100
Kill(j, sig) ==
  IF Delivered(child[j])
    THEN /\ killed' = [killed EXCEPT ![j] = TRUE]
         /\ sent' = [sent EXCEPT ![j] = Append(@, sig)]
         /\ sinceTerm' = [sinceTerm EXCEPT ![j] = IF sig = "SIGTERM" THEN 0 ELSE @]
    ELSE UNCHANGED <<killed, sent, sinceTerm>>

\* fs.unlink(inputFile), not awaited (lines 112 and 157)
UnlinkIssued(f) == IF f = "present" THEN "unlinking" ELSE f

\* The deadline timer fires (lines 90-104).
DeadlineFires(j) ==
  /\ timeoutId[j] = 0
  /\ timeoutId' = [timeoutId EXCEPT ![j] = NoTimer]
  /\ IF DeadlineGuard(killed[j], exitCode[j])
       THEN /\ processKilled' = [processKilled EXCEPT ![j] = TRUE]
            /\ Kill(j, DeadlineSignal)
            /\ graceTimer' = [graceTimer EXCEPT ![j] = GraceDelay]
       ELSE UNCHANGED <<processKilled, graceTimer, killed, sent, sinceTerm>>
  /\ UNCHANGED <<child, exitCode, exitedEarly, promise, attempts, listed, found, pdfFile>>
  /\ UNCHANGED <<queueVars, jobVars, fsVars>>

\* The grace-period timer fires (lines 97-102).
GraceFires(j) ==
  /\ graceTimer[j] = 0
  /\ graceTimer' = [graceTimer EXCEPT ![j] = NoTimer]
  /\ IF GraceGuard(exitCode[j])
       THEN Kill(j, "SIGKILL")
       ELSE UNCHANGED <<killed, sent, sinceTerm>>
  /\ UNCHANGED <<child, exitCode, exitedEarly, timeoutId, processKilled, promise, attempts, listed, found, pdfFile>>
  /\ UNCHANGED <<queueVars, jobVars, fsVars>>

\* The ways the converter process can end: by itself with code 0 or 1, or by
\* a signal (one the supervisor delivered, or one from outside the service).
ExitWays == {"code0", "code1", "signal"}

\* Node learns that the process ended: child.exitCode (null after a signal) is
\* set and the handle is closed; 'close' follows once the pipes are closed.
\* wrote: the process has written its PDF, which is named after the job's
\* input file, into the directory of --outdir (line 66) if that exists.
ChildExit(j, how, wrote) ==
  /\ child[j] = "running"
  /\ wrote => outputDir[dir[j]] = "present"
  /\ child' = [child EXCEPT ![j] = "exited"]
  /\ exitCode' = [exitCode EXCEPT ![j] = IF how = "code0" THEN "0" ELSE IF how = "code1" THEN "1" ELSE "null"]
  /\ exitedEarly' = [exitedEarly EXCEPT ![j] = timeoutId[j] > 0]
  /\ sinceTerm' = [sinceTerm EXCEPT ![j] = NoTimer]
  /\ pdfFiles' = [pdfFiles EXCEPT ![dir[j]] = IF wrote THEN @ \cup {j} ELSE @]
  /\ UNCHANGED <<killed, timeoutId, graceTimer, processKilled, promise, attempts, sent, listed, found, pdfFile>>
  /\ UNCHANGED <<queueVars, jobVars, inputFile, dir, sameMs, outputDir>>

\* The 'error' event of a failed spawn (lines 152-162); Node has set
\* child.exitCode to the errno and emits 'close' afterwards.
ChildError(j) ==
  /\ child[j] = "spawnerr"
  /\ child' = [child EXCEPT ![j] = "exited"]
  /\ exitCode' = [exitCode EXCEPT ![j] = "ENOENT"]
  /\ exitedEarly' = exitedEarly
  /\ timeoutId' = [timeoutId EXCEPT ![j] = ClearTimers(timeoutId[j], graceTimer[j])[1]]
  /\ graceTimer' = [graceTimer EXCEPT ![j] = ClearTimers(timeoutId[j], graceTimer[j])[2]]
  /\ inputFile' = [inputFile EXCEPT ![j] = UnlinkIssued(@)]
  /\ Reject(j, "Spawn")
  /\ UNCHANGED <<killed, processKilled, sent, sinceTerm, listed, found, pdfFile>>
  /\ UNCHANGED <<dir, sameMs, outputDir, pdfFiles>>

\* The 'close' event (lines 107-149), up to the readdir it may issue.
ChildClose(j) ==
  /\ child[j] = "exited"
  /\ child' = [child EXCEPT ![j] = "closed"]
  /\ timeoutId' = [timeoutId EXCEPT ![j] = ClearTimers(timeoutId[j], graceTimer[j])[1]]
  /\ graceTimer' = [graceTimer EXCEPT ![j] = ClearTimers(timeoutId[j], graceTimer[j])[2]]
  /\ inputFile' = [inputFile EXCEPT ![j] = UnlinkIssued(@)]
  /\ LET r == CloseResult(processKilled[j], exitCode[j]) IN
     IF r = "scan"
       THEN /\ UNCHANGED <<promise, attempts>>
            /\ IF promise[j] = "pending"
                 THEN Goto(j, "readdir") /\ UNCHANGED <<response, pdfBuffer>>
                 ELSE UNCHANGED <<queueVars, jobVars>>
       ELSE Reject(j, r)
  /\ exitedEarly' = [exitedEarly EXCEPT ![j] = FALSE]
  /\ UNCHANGED <<exitCode, killed, processKilled, sent, sinceTerm, listed, found, pdfFile>>
  /\ UNCHANGED <<dir, sameMs, outputDir, pdfFiles>>

\* ---- the job's body after the supervision ----------------------------------
\* The file of job j in its output directory is there.
HasFile(j, f) == outputDir[dir[j]] = "present" /\ f \in pdfFiles[dir[j]]

\* A scan that goes on to fs.stat whatever it found.
ScanResultAny(files) == "stat"

\* lines 134-141: no .pdf among the entries: reject; else take pdfFiles[0]
ScanResult(files) == IF files = {} THEN "NoPdf" ELSE "stat"

\* fs.readdir(outputDir) completes (lines 132-141, 148) with an error or
\* with the entries, of which f is the first .pdf (0: there is none).  The
\* entries come in the order the file system gives them and are not sorted:
\* any of the .pdf files can be the first.
ReaddirDone(j, r, f) ==
  /\ jpc[j] = "readdir"
  /\ r = "ok" => outputDir[dir[j]] = "present"
  /\ IF r = "ok" /\ pdfFiles[dir[j]] # {} THEN f \in pdfFiles[dir[j]] ELSE f = 0
  /\ listed' = [listed EXCEPT ![j] = r = "ok"]
  /\ found' = [found EXCEPT ![j] = IF r = "ok" THEN pdfFiles[dir[j]] ELSE {}]
  /\ IF r = "ok" /\ ScanResult(pdfFiles[dir[j]]) = "stat"
       THEN /\ Goto(j, "stat")
            /\ pdfFile' = [pdfFile EXCEPT ![j] = f]
            /\ UNCHANGED <<promise, attempts, response, pdfBuffer>>
       ELSE /\ Reject(j, IF r = "ok" THEN "NoPdf" ELSE "Io")
            /\ pdfFile' = pdfFile
  /\ UNCHANGED <<child, exitCode, exitedEarly, killed, timeoutId, graceTimer,
                 processKilled, sent, sinceTerm, fsVars>>

\* fs.stat(pdfFile) completes (lines 141-146): convertDocxToPdf resolves and
\* its caller issues fs.readFile (lines 197 and 373).
StatDone(j, r) ==
  /\ jpc[j] = "stat"
  /\ r = "ok" => HasFile(j, pdfFile[j])
  /\ IF r = "ok"
       THEN /\ promise' = [promise EXCEPT ![j] = SettleOnce(@, "resolved")]
            /\ attempts' = [attempts EXCEPT ![j] = @ + 1]
            /\ Goto(j, "readfile")
            /\ UNCHANGED <<response, pdfBuffer>>
       ELSE Reject(j, "Io")
  /\ found' = [found EXCEPT ![j] = {}]
  /\ UNCHANGED <<child, exitCode, exitedEarly, killed, timeoutId, graceTimer,
                 processKilled, sent, sinceTerm, listed, pdfFile, fsVars>>

\* fs.readFile(pdfPath) completes (lines 197-202 and 373-378).
ReadFileDone(j, r) ==
  /\ jpc[j] = "readfile"
  /\ r = "ok" => HasFile(j, pdfFile[j])
  /\ IF r = "ok"
       THEN /\ Goto(j, "unlinkpdf")
            /\ pdfBuffer' = [pdfBuffer EXCEPT ![j] = "bytes"]
       ELSE /\ Throws(j, "Io")
            /\ pdfBuffer' = pdfBuffer
  /\ UNCHANGED <<response, supVars, fsVars>>

\* A cleanup whose failure fails the job.
CleanupResultStrict(r) == IF r = "ok" THEN "completed" ELSE "Io"

\* lines 200-207 and 376-383: a failure of the cleanup is caught and logged
CleanupResult(r) == "completed"

\* fs.unlink(pdfPath) completes (lines 202-207 and 378-383); a failure is
\* caught and logged, and the job returns its result.
UnlinkPdfDone(j, r) ==
  /\ jpc[j] = "unlinkpdf"
  /\ r = "ok" => HasFile(j, pdfFile[j])
  /\ IF r = "ok"
       THEN /\ Goto(j, "rm")
            /\ pdfFiles' = [pdfFiles EXCEPT ![dir[j]] = @ \ {pdfFile[j]}]
       ELSE /\ Returns(j, CleanupResult(r))
            /\ pdfFiles' = pdfFiles
  /\ UNCHANGED <<response, pdfBuffer, supVars, inputFile, dir, sameMs, outputDir>>

\* fs.rm(outputDir, {recursive, force}) completes (lines 203-209, 379-389).
RmDone(j, r) ==
  /\ jpc[j] = "rm"
  /\ Returns(j, CleanupResult(r))
  /\ outputDir' = [outputDir EXCEPT ![dir[j]] = IF r = "ok" THEN "absent" ELSE @]
  /\ pdfFiles' = [pdfFiles EXCEPT ![dir[j]] = IF r = "ok" THEN {} ELSE @]
  /\ UNCHANGED <<response, pdfBuffer, supVars, inputFile, dir, sameMs>>

\* convertDocxToPdfFromUrl, lines 210-218: fs.rm(outputDir) of the catch
\* block completes and the caught error is rethrown.
RmErrDone(j, r) ==
  /\ jpc[j] = "rmerr"
  /\ outcome' = [outcome EXCEPT ![j] = thrown[j]]
  /\ thrown' = [thrown EXCEPT ![j] = "none"]
  /\ jpc' = [jpc EXCEPT ![j] = "hook"]
  /\ hooks' = [hooks EXCEPT ![j] = Append(@, WebhookStatus(thrown[j]))]
  /\ outbound' = [outbound EXCEPT ![j] = Append(@, WebhookStatus(thrown[j]))]
  /\ outputDir' = [outputDir EXCEPT ![dir[j]] = IF r = "ok" THEN "absent" ELSE @]
  /\ pdfFiles' = [pdfFiles EXCEPT ![dir[j]] = IF r = "ok" THEN {} ELSE @]
  /\ UNCHANGED <<queueVars, kind, url, resp, response, pdfBuffer, delivery, unhandled>>
  /\ UNCHANGED <<supVars, inputFile, dir, sameMs>>

\* A notifier whose handlers let a failed request go on as an exception.
HookEscapesOnError(r) == r = "error"

\* lines 268-291 and 301-317: the webhook request and the reading of its
\* answer are inside try/catch; no result r of the request leaves a handler
HookEscapes(r) == FALSE

\* The webhook request completes with r: "ok", "notok" (answered, not 2xx) or
\* "error" (lines 284-292 and 314-317).  An exception leaving the .then
\* handler would reach the .catch of line 294, which sends the webhook of a
\* failure; one leaving the .catch handler would have no handler.
HookDone(j, r) ==
  /\ jpc[j] = "hook"
  /\ delivery' = [delivery EXCEPT ![j] = r]
  /\ IF HookEscapes(r)
       THEN IF hooks[j] = <<"completed">>
              THEN /\ hooks' = [hooks EXCEPT ![j] = Append(@, "failed")]
                   /\ outbound' = [outbound EXCEPT ![j] = Append(@, "failed")]
                   /\ UNCHANGED <<jpc, unhandled>>
              ELSE /\ unhandled' = TRUE
                   /\ jpc' = [jpc EXCEPT ![j] = "done"]
                   /\ UNCHANGED <<hooks, outbound>>
       ELSE /\ jpc' = [jpc EXCEPT ![j] = "done"]
            /\ UNCHANGED <<hooks, outbound, unhandled>>
  /\ UNCHANGED <<queueVars, kind, url, thrown, outcome, resp, response, pdfBuffer>>
  /\ UNCHANGED <<supVars, fsVars>>

\* ---- time ------------------------------------------------------------------
Armed ==
  {t \in {cooldown} \cup {timeoutId[j] : j \in Jobs} \cup {graceTimer[j] : j \in Jobs} :
     t # NoTimer}

NextDue == CHOOSE t \in Armed : \A u \in Armed : t <= u

After(t, d) == IF t = NoTimer THEN NoTimer ELSE t - d

\* Time passes until the next timer is due.  The 'error' event of a failed
\* spawn is emitted on the next tick of the event loop, before any time passes.
Tick ==
  /\ Armed # {}
  /\ \A j \in Jobs : child[j] # "spawnerr"
  /\ NextDue > 0
  /\ LET d == NextDue IN
       /\ cooldown' = After(cooldown, d)
       /\ timeoutId' = [j \in Jobs |-> After(timeoutId[j], d)]
       /\ graceTimer' = [j \in Jobs |-> After(graceTimer[j], d)]
       /\ sinceSettle' = Min(sinceSettle + d, CooldownMs)
       /\ sinceTerm' = [j \in Jobs |-> IF sinceTerm[j] = NoTimer THEN NoTimer
                                        ELSE Min(sinceTerm[j] + d, GraceMs)]
  /\ sameMs' = {}
  /\ UNCHANGED <<queue, processing, entry, settles, waiting>>
  /\ UNCHANGED <<child, exitCode, exitedEarly, killed, processKilled, promise, attempts, sent, listed, found, pdfFile>>
  /\ UNCHANGED <<jobVars, inputFile, dir, outputDir, pdfFiles>>

\* ---- the end of a job ------------------------------------------------------
\* Nothing of job j is left in the program.
Finished(j) ==
  /\ jpc[j] = "done"
  /\ child[j] \in {"none", "closed"}
  /\ timeoutId[j] = NoTimer
  /\ graceTimer[j] = NoTimer

Quiet == \A j \in Jobs : ~Finished(j)

\* The directory ids that only job j holds: its path is never made again.
OwnDirs(j) == {d \in Jobs : dir[j] = d /\ \A i \in Jobs \ {j} : dir[i] # d}

\* The slot of a finished job is freed.
Forget(j) ==
  /\ Finished(j)
  /\ entry' = [entry EXCEPT ![j] = "none"]
  /\ settles' = [settles EXCEPT ![j] = 0]
  /\ kind' = [kind EXCEPT ![j] = "none"]
  /\ url' = [url EXCEPT ![j] = "none"]
  /\ jpc' = [jpc EXCEPT ![j] = "new"]
  /\ thrown' = [thrown EXCEPT ![j] = "none"]
  /\ outcome' = [outcome EXCEPT ![j] = "none"]
  /\ resp' = [resp EXCEPT ![j] = "none"]
  /\ hooks' = [hooks EXCEPT ![j] = <<>>]
  /\ outbound' = [outbound EXCEPT ![j] = <<>>]
  /\ response' = [response EXCEPT ![j] = "none"]
  /\ pdfBuffer' = [pdfBuffer EXCEPT ![j] = "none"]
  /\ delivery' = [delivery EXCEPT ![j] = "none"]
  /\ child' = [child EXCEPT ![j] = "none"]
  /\ exitCode' = [exitCode EXCEPT ![j] = "null"]
  /\ exitedEarly' = [exitedEarly EXCEPT ![j] = FALSE]
  /\ killed' = [killed EXCEPT ![j] = FALSE]
  /\ processKilled' = [processKilled EXCEPT ![j] = FALSE]
  /\ promise' = [promise EXCEPT ![j] = "none"]
  /\ attempts' = [attempts EXCEPT ![j] = 0]
  /\ sent' = [sent EXCEPT ![j] = <<>>]
  /\ sinceTerm' = [sinceTerm EXCEPT ![j] = NoTimer]
  /\ listed' = [listed EXCEPT ![j] = FALSE]
  /\ found' = [found EXCEPT ![j] = {}]
  /\ pdfFile' = [pdfFile EXCEPT ![j] = 0]
  /\ inputFile' = [inputFile EXCEPT ![j] = "absent"]
  /\ dir' = [dir EXCEPT ![j] = 0]
  /\ sameMs' = sameMs \ {j}
  /\ outputDir' = [d \in Jobs |-> IF d \in OwnDirs(j) THEN "absent" ELSE outputDir[d]]
  /\ pdfFiles' = [d \in Jobs |-> IF d \in OwnDirs(j) THEN {} ELSE pdfFiles[d]]
  /\ UNCHANGED <<queue, processing, cooldown, waiting, sinceSettle, timeoutId,
                 graceTimer, unhandled>>

\* ---- the specification -----------------------------------------------------
Urls == {"valid", "bad"}
IoResults == {"ok", "error"}

\* The steps of a job's body that the two routes have in common, the
\* supervision's handlers, and time.
Steps ==
  \/ \E j \in Jobs, r \in {"ok", "notok", "error"} : FetchDone(j, r)
  \/ \E j \in Jobs, r \in IoResults : BufferDone(j, r)
  \/ \E j \in Jobs, r \in IoResults : MkdirDone(j, r)
  \/ \E j \in Jobs, r \in IoResults, s \in {"ok", "enoent", "throw"} : WriteDone(j, r, s)
  \/ \E j \in Jobs : DeadlineFires(j)
  \/ \E j \in Jobs : GraceFires(j)
  \/ \E j \in Jobs : ChildError(j)
  \/ \E j \in Jobs : ChildClose(j)
  \/ \E j \in Jobs, r \in IoResults, f \in Jobs \cup {0} : ReaddirDone(j, r, f)
  \/ \E j \in Jobs, r \in IoResults : StatDone(j, r)
  \/ \E j \in Jobs, r \in IoResults : ReadFileDone(j, r)
  \/ \E j \in Jobs, r \in IoResults : UnlinkPdfDone(j, r)
  \/ \E j \in Jobs, r \in IoResults : RmDone(j, r)
  \/ Tick

\* A converter process ends.
Exits == \E j \in Jobs, how \in ExitWays, wrote \in BOOLEAN : ChildExit(j, how, wrote)

\* What happens on both routes, and the queue's timer.
Common ==
  \/ CooldownFires
  \/ Steps
  \/ Exits

\* The steps of the notifier of POST /api/convert.
Notifier ==
  \/ \E j \in Jobs, r \in IoResults : RmErrDone(j, r)
  \/ \E j \in Jobs, r \in {"ok", "notok", "error"} : HookDone(j, r)

\* The jobs of route k in the service.
InService(k) == Cardinality({j \in Jobs : kind[j] = k})

\* The service with both routes.
Next ==
  \/ /\ Quiet
     /\ \/ \E u \in Urls : InService("sync") < MaxMixed /\ RequestSync(u)
        \/ \E u \in Urls, twin \in Jobs \cup {0} :
              InService("callback") < MaxMixed /\ RequestAsync(u, twin)
        \/ Notifier
        \/ Common
  \/ \E j \in Jobs : Forget(j)

Spec == Init /\ [][Next]_vars

\* The service when every request goes to POST /api/convert-sync, that is
\* through the ConversionQueue.  The jobs of POST /api/convert never read or
\* write the queue.
QueueNext ==
  \/ /\ Quiet
     /\ \/ \E u \in Urls : RequestSync(u)
        \/ Common
  \/ \E j \in Jobs : Forget(j)

QueueSpec == Init /\ [][QueueNext]_vars

\* The service when every request goes to POST /api/convert.
CallbackNext ==
  \/ /\ Quiet
     /\ \/ \E u \in Urls, twin \in Jobs \cup {0} : RequestAsync(u, twin)
        \/ Notifier
        \/ Steps
        \/ Exits
  \/ \E j \in Jobs : Forget(j)

CallbackSpec == Init /\ [][CallbackNext]_vars

\* The queue under the scheduling Node guarantees: a runnable handler runs, a
\* due timer fires, time passes, and a process that got SIGKILL ends.  Nothing
\* obliges a client to send a request.
QueueLive ==
  QueueSpec /\ WF_vars((Quiet /\ Common) \/ (\E j \in Jobs : Forget(j)))

\* SIGKILL was delivered to the process of job j.
Sigkilled(j) == \E i \in 1..Len(sent[j]) : sent[j][i] = "SIGKILL"

\* The supervision under the same scheduling, with a converter that is free
\* never to end by itself and to ignore SIGTERM: only a process that got
\* SIGKILL is bound to end.
SuperviseLive ==
  /\ QueueSpec
  /\ WF_vars((Quiet /\ (CooldownFires \/ Steps)) \/ (\E j \in Jobs : Forget(j)))
  /\ \A j \in Jobs :
       WF_vars(Quiet /\ Sigkilled(j) /\ \E wrote \in BOOLEAN : ChildExit(j, "signal", wrote))

\* ==== properties ==============================================================
InQueue(j) == \E i \in 1..Len(queue) : queue[i] = j

Settled(j) == entry[j] \in {"resolved", "rejected"}

\* The body of job j is executing: started and not yet ended.
Executing(j) == jpc[j] \notin {"new", "queued", "done"}

\* Job h's callback is started in this step.
Dispatch(h) == entry[h] # "active" /\ entry'[h] = "active"

\* C1: at most one queue entry's callback is executing at any moment, and
\* every other entry that is not settled is in the pending list.
C1_MutualExclusion ==
  /\ Cardinality({j \in Jobs : entry[j] = "active"}) <= 1
  /\ Cardinality({j \in Jobs : kind[j] = "sync" /\ Executing(j)}) <= 1
  /\ \A j \in Jobs : kind[j] = "sync" /\ Executing(j) => entry[j] = "active"
  /\ \A j \in Jobs : entry[j] = "pending" => InQueue(j) /\ ~Executing(j)

\* One entry is executing while two others wait in the pending list.
C1_Witness ==
  \E j \in Jobs : entry[j] = "active" /\ Executing(j) /\ Len(queue) >= 2

\* C2: no two jobs, from whichever route, have a converter process running at
\* the same moment.
C2_OneConverter ==
  Cardinality({j \in Jobs : child[j] = "running"}) <= 1

\* C3: callbacks are started in the order of the enqueue calls: the entry
\* that is started is the oldest one waiting.
C3_Fifo ==
  [][\A h \in Jobs : Dispatch(h) => (waiting = <<>> \/ Head(waiting) = h)]_vars

\* An entry is executing that was taken from the list while an entry in a
\* lower slot, enqueued after it, stayed behind.
C3_Witness ==
  \E j, k \in Jobs : entry[j] = "active" /\ entry[k] = "pending" /\ k < j

\* C4: an entry is settled exactly once: resolve / reject is called at most
\* once, an entry whose job has ended was settled, and an entry leaves the
\* pending list only to be started.
C4_SettledOnce ==
  \A j \in Jobs :
    /\ settles[j] <= 1
    /\ Settled(j) <=> settles[j] = 1
    /\ InQueue(j) <=> entry[j] = "pending"
    /\ Cardinality({i \in 1..Len(queue) : queue[i] = j}) <= 1
    /\ kind[j] = "sync" /\ jpc[j] = "done" => Settled(j)
    /\ kind[j] = "sync" /\ ~InQueue(j) => entry[j] = "active" \/ Settled(j)

\* Both a resolved and a rejected entry exist, each settled once.
C4_Witness ==
  \E j, k \in Jobs : entry[j] = "rejected" /\ entry[k] = "resolved"
                      /\ settles[j] = 1 /\ settles[k] = 1

\* C5: every enqueued entry is eventually started and settled, whatever
\* happens to the entries before it.
C5_Progress ==
  \A j \in Jobs : (entry[j] = "pending") ~> Settled(j)

\* An entry has failed while another one is still waiting.
C5_Witness ==
  \E j, k \in Jobs : entry[j] = "rejected" /\ entry[k] = "pending"

\* C6 as stated: enqueue never rejects; a failing callback gives a resolved
\* entry.
C6_NeverRejects ==
  \A j \in Jobs : entry[j] # "rejected"

\* C6 amended: when the callback fails, enqueue rejects, once, with the
\* callback's error, and the convert-sync route answers 500; when it
\* succeeds, enqueue resolves and the route answers 200.
C6_RejectsAndAnswers ==
  \A j \in Jobs :
    kind[j] = "sync" /\ jpc[j] = "done" =>
      /\ outcome[j] # "completed" => entry[j] = "rejected" /\ resp[j] = "500"
      /\ outcome[j] = "completed" => entry[j] = "resolved" /\ resp[j] = "200"
      /\ settles[j] = 1

\* A job whose converter could not be spawned was answered 500.
C6_Witness ==
  \E j \in Jobs : outcome[j] = "Spawn" /\ entry[j] = "rejected" /\ resp[j] = "500"

\* C7: while the cooldown timer is armed the queue is busy, no entry is
\* executing and the entry that finished is settled; an entry is started only
\* when no other is executing, the cooldown timer is not running and at
\* least the cooldown interval has passed since the last entry was settled.
C7_Cooldown ==
  /\ [](cooldown # NoTimer => processing /\ \A j \in Jobs : entry[j] # "active")
  /\ [][\A h \in Jobs : Dispatch(h) =>
          /\ \A j \in Jobs : entry[j] # "active"
          /\ cooldown \in {NoTimer, 0}
          /\ sinceSettle >= CooldownMs]_vars
  /\ [][cooldown = NoTimer /\ cooldown' # NoTimer =>
          \E j \in Jobs : entry[j] = "active" /\ Settled(j)']_vars

\* An entry is executing after the cooldown that followed an entry which
\* timed out and whose record is still there.
C7_Witness ==
  \E j, k \in Jobs : entry[j] = "active" /\ entry[k] = "rejected"
                      /\ sinceSettle >= CooldownMs /\ cooldown = NoTimer

\* C8: the deadline timer, firing while the process runs, delivers SIGTERM;
\* SIGKILL is delivered only after SIGTERM, only when the grace period has
\* passed since, and only to a process that has not exited.
C8_Escalation ==
  /\ [](\A j \in Jobs : sent[j] \in {<<>>, <<"SIGTERM">>, <<"SIGTERM", "SIGKILL">>})
  /\ [][\A j \in Jobs : Len(sent'[j]) > Len(sent[j]) =>
          /\ child[j] = "running"
          /\ sent'[j][Len(sent'[j])] = "SIGTERM" => sent[j] = <<>> /\ timeoutId[j] = 0
          /\ sent'[j][Len(sent'[j])] = "SIGKILL" =>
               /\ sent[j] = <<"SIGTERM">>
               /\ graceTimer[j] = 0
               /\ sinceTerm[j] >= GraceMs]_vars
  /\ [][\A j \in Jobs :
          timeoutId[j] = 0 /\ timeoutId'[j] = NoTimer /\ child[j] = "running"
            => sent'[j] = <<"SIGTERM">>]_vars

\* A process got SIGTERM and, the grace period later, SIGKILL.
C8_Witness ==
  \E j \in Jobs : sent[j] = <<"SIGTERM", "SIGKILL">>

\* C9: once the 'close' of the process was handled, no timer of its
\* supervision is armed.
C9_TimersCancelled ==
  \A j \in Jobs : child[j] = "closed" => timeoutId[j] = NoTimer /\ graceTimer[j] = NoTimer

\* C10: a supervision whose deadline timer found the process running ends,
\* at 'close', with the timeout error, whatever the exit code.
C10_Timeout ==
  \A j \in Jobs :
    sent[j] # <<>> =>
      /\ child[j] = "closed" => outcome[j] = "Timeout" \/ thrown[j] = "Timeout"
      /\ child[j] # "closed" => outcome[j] = "none" /\ thrown[j] = "none"

\* A process that got SIGTERM exited with code 0 and the job timed out.
C10_Witness ==
  \E j \in Jobs : sent[j] # <<>> /\ exitCode[j] = "0" /\ child[j] = "closed"
                   /\ outcome[j] = "Timeout"

C12_OutputMissing ==
  /\ [][\A j \in Jobs :
          ~listed[j] /\ listed'[j] /\ pdfFiles[dir[j]] = {}
            => /\ exitCode[j] = "0" /\ ~processKilled[j]
               /\ promise'[j] = "NoPdf"
               /\ outcome'[j] = "NoPdf"
               /\ jpc'[j] = "done"]_vars
  /\ [](\A j \in Jobs : outcome[j] = "NoPdf" => pdfBuffer[j] = "none" /\ resp[j] = "500")

\* A conversion whose process ended with code 0 and left no PDF has failed
\* with the missing-output error.
C12_Witness ==
  \E j \in Jobs : /\ exitCode[j] = "0" /\ ~processKilled[j] /\ listed[j]
                   /\ pdfFiles[dir[j]] = {} /\ outcome[j] = "NoPdf"

\* The conditions of a completed conversion of job j: the input was staged,
\* the converter was spawned and ended with code 0 before the deadline timer
\* fired, and a .pdf file was found and read.
Converted(j) ==
  /\ inputFile[j] \in {"present", "unlinking"}
  /\ child[j] = "closed"
  /\ exitCode[j] = "0"
  /\ ~processKilled[j] /\ sent[j] = <<>>
  /\ listed[j] /\ pdfFile[j] # 0
  /\ promise[j] = "resolved"
  /\ pdfBuffer[j] = "bytes"

\* C13: a job that has ended is completed if and only if its input was
\* staged, its converter was spawned and ended with code 0 before the
\* deadline timer fired, and a .pdf file was found and read; it then
\* carries the bytes read and the request is answered 200.
C13_CompletedIff ==
  \A j \in Jobs :
    /\ outcome[j] = "completed" => jpc[j] = "done"
    /\ jpc[j] = "done" => (outcome[j] = "completed" <=> Converted(j))
    /\ jpc[j] = "done" /\ Converted(j) => resp[j] = "200" /\ entry[j] = "resolved"
    /\ pdfBuffer[j] = "bytes" => Converted(j)

\* A job is completed although the removal of its output directory failed.
C13_Witness ==
  \E j \in Jobs : /\ outcome[j] = "completed" /\ Converted(j)
                   /\ outputDir[dir[j]] = "present"

\* C14: once a job has ended (its result went to the queue, or its
\* webhook request was issued) its input file and its output directory are
\* gone, a file whose unlink was issued counting as gone.
C14_CleanedUp ==
  \A j \in Jobs :
    outcome[j] # "none" =>
      /\ inputFile[j] # "present"
      /\ dir[j] # 0 => outputDir[dir[j]] = "absent"

\* C15: whatever the answer to a webhook request, and also when the request
\* fails, the job's outcome stays what it was, no further webhook request
\* is issued (none again, none of the other status), the job is over, and no
\* promise of the notifier is rejected without a handler.
C15_HookIsolated ==
  /\ [](~unhandled)
  /\ [](\A j \in Jobs : Len(hooks[j]) <= 1)
  /\ [](\A j \in Jobs :
         delivery[j] # "none" =>
           /\ jpc[j] = "done"
           /\ hooks[j] = <<WebhookStatus(outcome[j])>>)
  /\ [][\A j \in Jobs :
          jpc[j] = "hook" /\ jpc'[j] # "hook"
            => /\ outcome'[j] = outcome[j]
               /\ hooks'[j] = hooks[j]
               /\ jpc'[j] = "done"]_vars

\* The webhook request of a completed conversion failed, and the job is
\* over with its single "completed" request and its outcome.
C15_Witness ==
  \E j \in Jobs : /\ delivery[j] = "error" /\ outcome[j] = "completed"
                   /\ hooks[j] = <<"completed">> /\ jpc[j] = "done"

\* The input of job j is unusable: its URL is a sentinel or not absolute,
\* or its download failed or was answered with a status that is not OK.
Unusable(j) == url[j] = "bad" \/ response[j] \in {"notok", "error"}

\* C16: a job with an unusable input stages no input file, makes no output
\* directory, spawns no converter, and ends with a failure: a 500 on the
\* queued route, one "failed" webhook request on the callback route.
C16_FailFast ==
  \A j \in Jobs :
    Unusable(j) =>
      /\ inputFile[j] = "absent"
      /\ promise[j] = "none"
      /\ child[j] = "none" /\ timeoutId[j] = NoTimer /\ graceTimer[j] = NoTimer
      /\ kind[j] = "sync" => dir[j] = 0
      /\ jpc[j] \in {"fetch", "queued", "rmerr", "hook", "done"}
      /\ outcome[j] \in {"none", "InvalidUrl", "Download"}
      /\ thrown[j] \in {"none", "Download"}
      /\ jpc[j] = "done" =>
           /\ outcome[j] \in {"InvalidUrl", "Download"}
           /\ kind[j] = "sync" => resp[j] = "500" /\ entry[j] = "rejected"
           /\ kind[j] = "callback" => hooks[j] = <<"failed">>

\* A queued job has ended, and a callback job has sent its webhook request,
\* on a download that was answered with a status that is not OK.
C16_Witness ==
  \E i, j \in Jobs : /\ kind[i] = "sync" /\ kind[j] = "callback"
                      /\ response[i] = "notok" /\ response[j] = "notok"
                      /\ jpc[i] = "done" /\ resp[i] = "500"
                      /\ jpc[j] = "hook" /\ hooks[j] = <<"failed">>

\* C17: two jobs that are in the service at the same time have output
\* directories of different paths.
C17_DistinctPaths ==
  \A i, j \in Jobs : i # j /\ dir[i] # 0 => dir[i] # dir[j]

\* C18: the promise of a supervision, once resolved or rejected, keeps its
\* result whatever event of the process or timer comes later, and the job
\* takes its outcome once: the outcome and the settled queue entry do not
\* change afterwards, and a job that has ended has an outcome.
C18_SingleOutcome ==
  /\ [][\A j \in Jobs :
          promise[j] \notin {"none", "pending"} /\ jpc'[j] # "new"
            => promise'[j] = promise[j]]_vars
  /\ [][\A j \in Jobs :
          outcome[j] # "none" /\ jpc'[j] # "new"
            => /\ outcome'[j] = outcome[j]
               /\ settles'[j] = settles[j]
               /\ entry'[j] = entry[j]
               /\ resp'[j] = resp[j]]_vars
  /\ [](\A j \in Jobs :
         /\ jpc[j] = "done" => outcome[j] # "none"
         /\ attempts[j] >= 1 <=> promise[j] \notin {"none", "pending"}
         /\ promise[j] \notin {"none", "pending", "resolved"} => outcome[j] = promise[j])

\* The 'error' and then the 'close' of a converter that could not be
\* started have both rejected: the first result stands.
C18_Witness ==
  \E j \in Jobs : /\ attempts[j] = 2 /\ child[j] = "closed"
                   /\ exitCode[j] = "ENOENT"
                   /\ promise[j] = "Spawn" /\ outcome[j] = "Spawn"

\* An enqueue of job j happens in this step.
Enqueued(j) == entry[j] = "none" /\ entry'[j] # "none"

\* C19: an enqueue made while the queue is busy (an entry is executing or
\* the cooldown timer is armed) puts the new entry at the end of the pending
\* list and starts nothing; the executing entry, its supervision, the
\* cooldown timer and the entries that wait are as before.  Whenever a slot
\* is free the request can be taken, busy or not.
C19_AcceptedWhileBusy ==
  /\ [][\A j \in Jobs :
          Enqueued(j) /\ processing
            => /\ queue' = Append(queue, j)
               /\ entry'[j] = "pending" /\ jpc'[j] = "queued"
               /\ processing' /\ cooldown' = cooldown
               /\ \A i \in Jobs \ {j} : entry'[i] = entry[i] /\ jpc'[i] = jpc[i]
               /\ UNCHANGED <<supVars, fsVars, outcome, settles>>]_vars
  /\ [](FreeSlots # {} => \A u \in Urls : ENABLED RequestSync(u))

\* An entry is executing, its converter running, and two entries that
\* were enqueued meanwhile wait.
C19_Witness ==
  \E j \in Jobs : /\ entry[j] = "active" /\ child[j] = "running"
                   /\ Len(queue) = 2
                   /\ \A i \in Jobs \ {j} : entry[i] = "pending"

\* C20: the supervision of a spawned converter eventually settles its
\* promise; the process need not end by itself nor on SIGTERM, only on
\* SIGKILL.
C20_Terminates ==
  \A j \in Jobs : (child[j] = "running") ~> (promise[j] \notin {"none", "pending"})

\* A converter that ended only on SIGKILL, and whose supervision has settled
\* with the timeout error.
C20_Witness ==
  \E j \in Jobs : /\ sent[j] = <<"SIGTERM", "SIGKILL">> /\ child[j] = "closed"
                   /\ exitCode[j] = "null" /\ promise[j] = "Timeout"

C24_NoLostWakeup ==
  /\ [](~processing /\ cooldown = NoTimer => queue = <<>>)
  /\ [](queue # <<>> =>
          /\ processing
          /\ (\E j \in Jobs : entry[j] = "active") \/ cooldown # NoTimer)
  /\ [][cooldown = 0 /\ cooldown' = NoTimer /\ queue # <<>> =>
          /\ Dispatch(Head(queue))
          /\ queue' = Tail(queue)
          /\ processing']_vars
  /\ \A j \in Jobs : (queue # <<>> /\ Head(queue) = j) ~> (entry[j] = "active")

\* Two entries wait while the cooldown after a failed entry runs and no
\* entry is executing: only the timer can wake the queue.
C24_Witness ==
  /\ Len(queue) = 2
  /\ cooldown > 0
  /\ \A j \in Jobs : entry[j] # "active"
  /\ \E j \in Jobs : entry[j] = "rejected"

\* C25: a converter process that ended, by itself or by a signal from
\* outside, while its deadline timer had time left gets no signal from the
\* supervisor, and its supervision does not end with the timeout error,
\* also when its 'close' is handled after the deadline.
C25_TimeoutOnlyIfRunning ==
  [][\A j \in Jobs :
       exitedEarly[j] =>
         /\ sent[j] = <<>> /\ sent'[j] = <<>>
         /\ promise'[j] # "Timeout"
         /\ thrown'[j] # "Timeout" /\ outcome'[j] # "Timeout"]_vars

\* C23: the file a scan takes depends only on the set of .pdf files it
\* found: two scans that found the same files take the same file.
C23_DeterministicSelection ==
  \A i, j \in Jobs :
    pdfFile[i] # 0 /\ pdfFile[j] # 0 /\ found[i] = found[j] => pdfFile[i] = pdfFile[j]

\* C22: a request to POST /api/convert is answered, with the acceptance
\* that carries the job id, in the turn that takes it, whatever its docxUrl;
\* the answer is the first thing the service sends for the job, before every
\* webhook request, also when the conversion fails at once on a docxUrl
\* that is not usable; and the answer is never changed by the outcome.
C22_AnsweredFirst ==
  /\ [](\A j \in Jobs :
         kind[j] = "callback" =>
           /\ resp[j] = "accepted"
           /\ outbound[j] # <<>>
           /\ Head(outbound[j]) = "accepted"
           /\ Tail(outbound[j]) = hooks[j])
  /\ [][\A j \in Jobs :
          /\ kind[j] = "none" /\ kind'[j] = "callback" =>
               resp'[j] = "accepted" /\ outcome'[j] \in {"none", "InvalidUrl"}
          /\ kind[j] = "callback" /\ kind'[j] = "callback" => resp'[j] = resp[j]]_vars

\* A request with a docxUrl that is not usable: the conversion failed in
\* the turn of the request, and the acceptance went out before the "failed"
\* webhook request.
C22_Witness ==
  \E j \in Jobs : /\ kind[j] = "callback" /\ url[j] = "bad"
                   /\ outcome[j] = "InvalidUrl" /\ resp[j] = "accepted"
                   /\ outbound[j] = <<"accepted", "failed">>

====
